---- MODULE Spec2Model ----
(***************************************************************************)
(* Model of the bingo sheet generator of src/launcher/src/main_launcher.rs: *)
(* the arrangement enumerator get_all_possible_arrangements_of_size_k, the  *)
(* per-column sampling loop of create_random_number_grids with its          *)
(* escalating matching_cells_tolerance, and the assembly of the grids.      *)
(*                                                                          *)
(* The program fixes 15 numbers per column and arrangements of length 5;    *)
(* the model keeps both as inputs (pool_size, k) drawn from small ranges,   *)
(* so that whole universes of arrangements can be explored.  The grid has   *)
(* one row per arrangement position, i.e. k rows.                           *)
(***************************************************************************)
EXTENDS Integers, Sequences, FiniteSets, TLC

\* ---------------------------------------------------------------- bounds
\* Largest arrangement length k explored.
MaxK == 3
\* Largest pool size n explored.
MaxN == 3
\* Largest universe (number of arrangements of one column) explored.
MaxUniverse == 6
\* Largest sheet_count explored for the sampling loop of one column.
MaxSheetCount == 7
\* Largest sheet_count explored when two columns and the grids are built.
MaxGridSheets == 3
\* Largest value of a pool element when the enumerator is called on its own.
MaxElem == 4

\* ------------------------------------------------------ program constants
\* vec![Vec::new(); 5]: the number of columns of a sheet.
NumColumns == 5
\* The cell the grid loop skips: `if y == 2 && x == 2 { continue; }`.
FreeX == 2
FreeY == 2
\* What Grid::new leaves in a cell that is never set.
EmptyCell == 0

Columns == 0..(NumColumns - 1)

VARIABLES
    pc,                       \* position in the program
    sheet_count,              \* input: number of sheets to generate
    k,                        \* input: arrangement length (5 in the program)
    pool_size,                \* input: numbers per column (15 in the program)
    col_index,                \* column the sampling loop is working on
    column_bag,               \* Shufflebag of the current column
    columns,                  \* columns[c]: arrangements accepted for column c
    matching_cells_tolerance, \* tolerance of the current column
    failed_pick_count,        \* rejected picks since the last escalation
    accepted_at,              \* history: tolerance at each acceptance (current column)
    random,                   \* generator: get_next calls served since it was seeded
    round_draws,              \* history: draws since the tolerance last changed
    grids,                    \* the grids produced
    elements,                 \* enumerator call: the pool handed in
    arrangements              \* enumerator call: the list returned

vars == <<pc, sheet_count, k, pool_size, col_index, column_bag, columns,
          matching_cells_tolerance, failed_pick_count, accepted_at, random,
          round_draws, grids, elements, arrangements>>

\* ------------------------------------------------------------ enumerator
\* subset.contains(&fixed)
Contains(subset, fixed) == \E i \in 1..Len(subset) : subset[i] = fixed

\* Faulty variant of ExtendSubset: the `contains` test is left out.
ExtendSubsetNoCheck(subset, elems) ==
    [i \in 1..Len(elems) |-> Append(subset, elems[i])]

\* The inner loop `for &fixed in elements`: the subset extended by every
\* element it does not hold yet, in the order of elements.
ExtendSubset(subset, elems) ==
    LET free == SelectSeq(elems, LAMBDA fixed : ~Contains(subset, fixed))
    IN  [i \in 1..Len(free) |-> Append(subset, free[i])]

\* The outer loop `for k_minus_one_subset in k_minus_one_subsets`: the
\* extensions of every subset, concatenated in order.
RECURSIVE ExtendAll(_, _)
ExtendAll(subsets, elems) ==
    IF subsets = <<>> THEN <<>>
    ELSE ExtendSubset(Head(subsets), elems) \o ExtendAll(Tail(subsets), elems)

\* get_all_possible_arrangements_of_size_k, for arguments that pass its assert.
RECURSIVE get_all_possible_arrangements_of_size_k(_, _)
get_all_possible_arrangements_of_size_k(kk, elems) ==
    IF kk = 1
    THEN [i \in 1..Len(elems) |-> <<elems[i]>>]
    ELSE ExtendAll(get_all_possible_arrangements_of_size_k(kk - 1, elems), elems)

\* Faulty variant of EnumeratorAssert: the upper bound on k is not tested.
EnumeratorAssertNoUpperBound(kk, elems) == 0 < kk

\* assert!(0 < k && k <= elements.len())
EnumeratorAssert(kk, elems) == 0 < kk /\ kk <= Len(elems)

\* ------------------------------------------------------------- sampling
\* Faulty variant of count_matching_cells: the last cell is not compared.
count_matching_cells_short(column, existing_column) ==
    LET n == IF Len(column) < Len(existing_column)
             THEN Len(column) ELSE Len(existing_column)
    IN  Cardinality({i \in 1..(n - 1) : column[i] = existing_column[i]})

\* count_matching_cells: zip stops at the shorter of the two.
count_matching_cells(column, existing_column) ==
    LET n == IF Len(column) < Len(existing_column)
             THEN Len(column) ELSE Len(existing_column)
    IN  Cardinality({i \in 1..n : column[i] = existing_column[i]})

\* Faulty variant of MaxMatchingCells: .min() in place of .max().
MinMatchingCells(new_column, previous_columns) ==
    IF previous_columns = <<>> THEN 0
    ELSE LET counts == {count_matching_cells(new_column, previous_columns[i]) :
                            i \in 1..Len(previous_columns)}
         IN  CHOOSE m \in counts : \A c \in counts : m <= c

\* .map(count_matching_cells).max().unwrap_or(0)
MaxMatchingCells(new_column, previous_columns) ==
    IF previous_columns = <<>> THEN 0
    ELSE LET counts == {count_matching_cells(new_column, previous_columns[i]) :
                            i \in 1..Len(previous_columns)}
         IN  CHOOSE m \in counts : \A c \in counts : c <= m

\* Faulty variant of PickFails: one matching cell too many is let through.
PickFailsOffByOne(new_column, previous_columns, tolerance) ==
    MaxMatchingCells(new_column, previous_columns) > tolerance + 1

\* Faulty variant of PickFails: `>=` in place of `>`.
PickFailsAtTolerance(new_column, previous_columns, tolerance) ==
    MaxMatchingCells(new_column, previous_columns) >= tolerance

\* The condition of the `if` of the loop body: the pick is rejected.
PickFails(new_column, previous_columns, tolerance) ==
    MaxMatchingCells(new_column, previous_columns) > tolerance

\* The numbers of column c: (1..=15), (16..=30), ... scaled to pool_size n.
Pool(c, n) == [i \in 1..n |-> c * n + i]

\* Shufflebag::new over a list of elements: nothing drawn yet.
ShufflebagNew(elems) == [elems |-> elems, remaining |-> 1..Len(elems)]

\* The indexes Shufflebag::get_next may deliver: one not yet drawn in this
\* pass; an exhausted bag starts a new pass over all its elements.
BagCandidates(bag) ==
    IF bag.remaining = {} THEN 1..Len(bag.elems) ELSE bag.remaining

\* The bag after get_next delivered index i.
BagAfterDraw(bag, i) == [bag EXCEPT !.remaining = BagCandidates(bag) \ {i}]

\* Shufflebag::reset: a fresh pass.
BagReset(bag) == [bag EXCEPT !.remaining = 1..Len(bag.elems)]

\* The bag of column c as created before the loop.
ColumnBag(c, kk, n) ==
    ShufflebagNew(get_all_possible_arrangements_of_size_k(kk, Pool(c, n)))

\* Faulty variant of PickStep: the tolerance is not raised when the failed
\* pick count reaches the size of the bag.
PickStepNoEscalation(bag, accepted, tolerance, failed, i) ==
    LET new_column == bag.elems[i]
        drawn      == BagAfterDraw(bag, i)
    IN  IF MaxMatchingCells(new_column, accepted) > tolerance
        THEN IF failed + 1 >= Len(bag.elems)
             THEN [bag |-> BagReset(drawn), accepted |-> accepted,
                   tolerance |-> tolerance, failed |-> 0]
             ELSE [bag |-> drawn, accepted |-> accepted,
                   tolerance |-> tolerance, failed |-> failed + 1]
        ELSE [bag |-> drawn, accepted |-> Append(accepted, new_column),
              tolerance |-> tolerance, failed |-> failed]

\* Faulty variant of PickStep: an accepted pick sets the tolerance back to 0.
PickStepToleranceReset(bag, accepted, tolerance, failed, i) ==
    LET new_column == bag.elems[i]
        drawn      == BagAfterDraw(bag, i)
    IN  IF MaxMatchingCells(new_column, accepted) > tolerance
        THEN IF failed + 1 >= Len(bag.elems)
             THEN [bag |-> BagReset(drawn), accepted |-> accepted,
                   tolerance |-> tolerance + 1, failed |-> 0]
             ELSE [bag |-> drawn, accepted |-> accepted,
                   tolerance |-> tolerance, failed |-> failed + 1]
        ELSE [bag |-> drawn, accepted |-> Append(accepted, new_column),
              tolerance |-> 0, failed |-> failed]

\* Faulty variant of PickStep: the tolerance is raised once as many picks
\* failed as an arrangement has cells, not as the bag has elements.
PickStepEarlyEscalation(bag, accepted, tolerance, failed, i) ==
    LET new_column == bag.elems[i]
        drawn      == BagAfterDraw(bag, i)
    IN  IF MaxMatchingCells(new_column, accepted) > tolerance
        THEN IF failed + 1 >= Len(new_column)
             THEN [bag |-> BagReset(drawn), accepted |-> accepted,
                   tolerance |-> tolerance + 1, failed |-> 0]
             ELSE [bag |-> drawn, accepted |-> accepted,
                   tolerance |-> tolerance, failed |-> failed + 1]
        ELSE [bag |-> drawn, accepted |-> Append(accepted, new_column),
              tolerance |-> tolerance, failed |-> failed]

\* Faulty variant of PickStep: the tolerance is raised one failed pick late
\* (`>` in place of `>=`).
PickStepLateEscalation(bag, accepted, tolerance, failed, i) ==
    LET new_column == bag.elems[i]
        drawn      == BagAfterDraw(bag, i)
    IN  IF MaxMatchingCells(new_column, accepted) > tolerance
        THEN IF failed + 1 > Len(bag.elems)
             THEN [bag |-> BagReset(drawn), accepted |-> accepted,
                   tolerance |-> tolerance + 1, failed |-> 0]
             ELSE [bag |-> drawn, accepted |-> accepted,
                   tolerance |-> tolerance, failed |-> failed + 1]
        ELSE [bag |-> drawn, accepted |-> Append(accepted, new_column),
              tolerance |-> tolerance, failed |-> failed]

\* Faulty variant of PickStep: an accepted pick sets the failed pick count
\* back to 0.
PickStepResetOnAccept(bag, accepted, tolerance, failed, i) ==
    LET new_column == bag.elems[i]
        drawn      == BagAfterDraw(bag, i)
    IN  IF MaxMatchingCells(new_column, accepted) > tolerance
        THEN IF failed + 1 >= Len(bag.elems)
             THEN [bag |-> BagReset(drawn), accepted |-> accepted,
                   tolerance |-> tolerance + 1, failed |-> 0]
             ELSE [bag |-> drawn, accepted |-> accepted,
                   tolerance |-> tolerance, failed |-> failed + 1]
        ELSE [bag |-> drawn, accepted |-> Append(accepted, new_column),
              tolerance |-> tolerance, failed |-> 0]

\* One iteration of the `while` loop in which get_next delivered the element
\* at index i: the bag, the accepted list, the tolerance and the failed pick
\* count after it.
PickStep(bag, accepted, tolerance, failed, i) ==
    LET new_column == bag.elems[i]
        drawn      == BagAfterDraw(bag, i)
    IN  IF PickFails(new_column, accepted, tolerance)
        THEN IF failed + 1 >= Len(bag.elems)
             THEN [bag |-> BagReset(drawn), accepted |-> accepted,
                   tolerance |-> tolerance + 1, failed |-> 0]
             ELSE [bag |-> drawn, accepted |-> accepted,
                   tolerance |-> tolerance, failed |-> failed + 1]
        ELSE [bag |-> drawn, accepted |-> Append(accepted, new_column),
              tolerance |-> tolerance, failed |-> failed]

\* The whole loop of one column for a bag that happens to deliver its
\* elements in the order of the list: the accepted list at the end.
RECURSIVE SampleInOrder(_, _, _, _, _)
SampleInOrder(bag, accepted, tolerance, failed, count) ==
    IF Len(accepted) >= count THEN accepted
    ELSE LET i == CHOOSE i \in BagCandidates(bag) :
                      \A j \in BagCandidates(bag) : i <= j
             r == PickStep(bag, accepted, tolerance, failed, i)
         IN  SampleInOrder(r.bag, r.accepted, r.tolerance, r.failed, count)

\* The number of get_next calls of that same loop.
RECURSIVE DrawsInOrder(_, _, _, _, _)
DrawsInOrder(bag, accepted, tolerance, failed, count) ==
    IF Len(accepted) >= count THEN 0
    ELSE LET i == CHOOSE i \in BagCandidates(bag) :
                      \A j \in BagCandidates(bag) : i <= j
             r == PickStep(bag, accepted, tolerance, failed, i)
         IN  1 + DrawsInOrder(r.bag, r.accepted, r.tolerance, r.failed, count)

\* The get_next calls the one generator has served before column c starts.
RECURSIVE DrawsBefore(_, _, _, _)
DrawsBefore(c, kk, n, count) ==
    IF c = 0 THEN 0
    ELSE DrawsBefore(c - 1, kk, n, count)
         + DrawsInOrder(ColumnBag(c - 1, kk, n), <<>>, 0, 0, count)

\* n!/(n-k)!, the size of the universe of a column.
RECURSIVE NumArrangements(_, _)
NumArrangements(n, kk) ==
    IF kk = 0 THEN 1 ELSE n * NumArrangements(n - 1, kk - 1)

\* --------------------------------------------------------- initial states
\* The inputs explored: a sheet count, an arrangement length and a pool size
\* that pass the enumerator's assert.
InputsOk ==
    /\ sheet_count \in 0..MaxSheetCount
    /\ k \in 1..MaxK
    /\ pool_size \in k..MaxN
    /\ NumArrangements(pool_size, k) <= MaxUniverse

\* The state in which the loop of column c starts: the bag of the column is
\* fresh, tolerance and failed pick count are 0, the columns before c are
\* complete (here: as a bag drawing in list order fills them).
InitAtColumn(c) ==
    /\ InputsOk
    /\ pc = "sampling"
    /\ col_index = c
    /\ column_bag = ColumnBag(c, k, pool_size)
    /\ columns = [x \in Columns |->
                    IF x < c
                    THEN SampleInOrder(ColumnBag(x, k, pool_size), <<>>, 0, 0,
                                       sheet_count)
                    ELSE <<>>]
    /\ matching_cells_tolerance = 0
    /\ failed_pick_count = 0
    /\ accepted_at = <<>>
    /\ random = DrawsBefore(c, k, pool_size, sheet_count)
    /\ round_draws = 0
    /\ grids = <<>>
    /\ elements = <<>>
    /\ arrangements = <<>>

\* The program's start: the loop of the first column.
Init == InitAtColumn(0)

\* ---------------------------------------------------------------- actions
enum_vars == <<elements, arrangements>>
input_vars == <<sheet_count, k, pool_size>>

\* The state after the loop iteration with outcome r.
AfterPick(r) ==
    /\ column_bag' = r.bag
    /\ columns' = [columns EXCEPT ![col_index] = r.accepted]
    /\ matching_cells_tolerance' = r.tolerance
    /\ failed_pick_count' = r.failed
    /\ accepted_at' = IF Len(r.accepted) > Len(columns[col_index])
                      THEN Append(accepted_at, matching_cells_tolerance)
                      ELSE accepted_at
    /\ random' = random + 1
    /\ round_draws' = IF r.tolerance # matching_cells_tolerance
                      THEN 0 ELSE round_draws + 1
    /\ UNCHANGED <<pc, col_index, grids, input_vars, enum_vars>>

\* while columns[col_index].len() < sheet_count
InLoop == pc = "sampling" /\ Len(columns[col_index]) < sheet_count

\* A loop iteration whose pick is pushed to the column.
AcceptPick ==
    /\ InLoop
    /\ \E i \in BagCandidates(column_bag) :
         /\ ~PickFails(column_bag.elems[i], columns[col_index],
                       matching_cells_tolerance)
         /\ AfterPick(PickStep(column_bag, columns[col_index],
                               matching_cells_tolerance, failed_pick_count, i))

\* A loop iteration whose pick fails and leaves the tolerance alone.
RejectPick ==
    /\ InLoop
    /\ failed_pick_count + 1 < Len(column_bag.elems)
    /\ \E i \in BagCandidates(column_bag) :
         /\ PickFails(column_bag.elems[i], columns[col_index],
                      matching_cells_tolerance)
         /\ AfterPick(PickStep(column_bag, columns[col_index],
                               matching_cells_tolerance, failed_pick_count, i))

\* Faulty variant of EscalateTolerance: the failed pick count and the bag
\* are reset but the tolerance is not raised, and the round starts over as
\* it started before.
EscalateWithoutRaise ==
    /\ InLoop
    /\ failed_pick_count + 1 >= Len(column_bag.elems)
    /\ \E i \in BagCandidates(column_bag) :
         /\ PickFails(column_bag.elems[i], columns[col_index],
                      matching_cells_tolerance)
         /\ LET r == PickStepNoEscalation(column_bag, columns[col_index],
                               matching_cells_tolerance, failed_pick_count, i)
            IN  /\ column_bag' = r.bag
                /\ failed_pick_count' = r.failed
                /\ matching_cells_tolerance' = r.tolerance
    /\ UNCHANGED <<pc, col_index, columns, accepted_at, random, round_draws,
                   grids, input_vars, enum_vars>>

\* A loop iteration whose pick fails and raises the tolerance.
EscalateTolerance ==
    /\ InLoop
    /\ failed_pick_count + 1 >= Len(column_bag.elems)
    /\ \E i \in BagCandidates(column_bag) :
         /\ PickFails(column_bag.elems[i], columns[col_index],
                      matching_cells_tolerance)
         /\ AfterPick(PickStep(column_bag, columns[col_index],
                               matching_cells_tolerance, failed_pick_count, i))

\* The `for` loop moves on to the next column with its own bag, a tolerance
\* of 0 and a failed pick count of 0.
NextColumn ==
    /\ pc = "sampling"
    /\ Len(columns[col_index]) >= sheet_count
    /\ col_index < NumColumns - 1
    /\ col_index' = col_index + 1
    /\ column_bag' = ColumnBag(col_index + 1, k, pool_size)
    /\ matching_cells_tolerance' = 0
    /\ failed_pick_count' = 0
    /\ accepted_at' = <<>>
    /\ round_draws' = 0
    /\ UNCHANGED <<pc, columns, random, grids, input_vars, enum_vars>>

\* The cells of a grid: NumColumns wide, one row per arrangement position.
Cells == Columns \X (0..(k - 1))

\* Faulty variant of GridOfSheet: every sheet reads the first arrangement.
GridOfFirstSheet(sheet_index) ==
    [cell \in Cells |->
        IF cell[2] = FreeY /\ cell[1] = FreeX
        THEN EmptyCell
        ELSE columns[cell[1]][1][cell[2] + 1]]

\* Faulty variant of GridOfSheet: the free cell is filled like the others.
GridOfSheetNoFreeCell(sheet_index) ==
    [cell \in Cells |-> columns[cell[1]][sheet_index + 1][cell[2] + 1]]

\* The closure of the final map: the grid of one sheet.
GridOfSheet(sheet_index) ==
    [cell \in Cells |->
        IF cell[2] = FreeY /\ cell[1] = FreeX
        THEN EmptyCell
        ELSE columns[cell[1]][sheet_index + 1][cell[2] + 1]]

\* After the last column: (0..sheet_count).map(...).collect()
CreateGrids ==
    /\ pc = "sampling"
    /\ Len(columns[col_index]) >= sheet_count
    /\ col_index = NumColumns - 1
    /\ grids' = [s \in 1..sheet_count |-> GridOfSheet(s - 1)]
    /\ pc' = "done"
    /\ UNCHANGED <<col_index, column_bag, columns, matching_cells_tolerance,
                   failed_pick_count, accepted_at, random, round_draws,
                   input_vars, enum_vars>>

SamplerNext == AcceptPick \/ RejectPick \/ EscalateTolerance

Next == AcceptPick \/ RejectPick \/ EscalateTolerance \/ NextColumn \/ CreateGrids

\* The whole of create_random_number_grids.
Spec == Init /\ [][Next]_vars

\* The sampling loop of one column, for each of the columns.
InitSampler == \E c \in Columns : InitAtColumn(c)
SpecSampler == InitSampler /\ [][SamplerNext]_vars

\* The loop of the first and of the last column under the fairness of a
\* sequential program: an iteration that can run does run.
InitFair == InitAtColumn(0) \/ InitAtColumn(NumColumns - 1)
FairSampler == InitFair /\ [][SamplerNext]_vars /\ WF_vars(SamplerNext)

\* The last two columns and the assembly of the grids.
InitGrids == InitAtColumn(NumColumns - 2) /\ sheet_count <= MaxGridSheets
SpecGrids == InitGrids /\ [][Next]_vars

\* ------------------------------------------------ the enumerator on its own
\* The pools handed to the enumerator: lists of distinct values.
DistinctLists ==
    LET lists == UNION {[1..m -> 1..MaxElem] : m \in 0..MaxElem}
    IN  {l \in lists : \A i, j \in 1..Len(l) : i # j => l[i] # l[j]}

\* Before a call get_all_possible_arrangements_of_size_k(k, elements).
InitEnumerator ==
    /\ pc = "enumerate"
    /\ elements \in DistinctLists
    /\ k \in 0..(MaxK + 1)
    /\ pool_size = Len(elements)
    /\ arrangements = <<>>
    /\ sheet_count = 0
    /\ col_index = 0
    /\ column_bag = ShufflebagNew(<<>>)
    /\ columns = [x \in Columns |-> <<>>]
    /\ matching_cells_tolerance = 0
    /\ failed_pick_count = 0
    /\ accepted_at = <<>>
    /\ random = 0
    /\ round_draws = 0
    /\ grids = <<>>

sampler_vars == <<sheet_count, pool_size, col_index, column_bag, columns,
                  matching_cells_tolerance, failed_pick_count, accepted_at,
                  random, round_draws, grids>>

\* The call returns the list of arrangements.
Enumerate ==
    /\ pc = "enumerate"
    /\ EnumeratorAssert(k, elements)
    /\ arrangements' = get_all_possible_arrangements_of_size_k(k, elements)
    /\ pc' = "enumerated"
    /\ UNCHANGED <<k, elements, sampler_vars>>

\* The assert of the call fails: the call panics.
EnumeratePanics ==
    /\ pc = "enumerate"
    /\ ~EnumeratorAssert(k, elements)
    /\ pc' = "panicked"
    /\ UNCHANGED <<k, elements, arrangements, sampler_vars>>

EnumeratorNext == Enumerate \/ EnumeratePanics
SpecEnumerator == InitEnumerator /\ [][EnumeratorNext]_vars

\* ------------------------------------------------------------ properties
\* The arrangements accepted so far for the column being sampled.
Accepted == columns[col_index]

\* The size of the universe of the column being sampled.
UniverseSize == Len(column_bag.elems)

\* The loop of the column being sampled has ended.
ColumnComplete == pc = "sampling" /\ Len(Accepted) >= sheet_count

Max(a, b) == IF a < b THEN b ELSE a

\* C1: diversity. Any two arrangements accepted for the column match in at
\* most max(t_i, t_j) positions, t_i and t_j being the tolerance at the time
\* each was accepted.
C1_Diversity ==
    /\ Len(accepted_at) = Len(Accepted)
    /\ \A i, j \in 1..Len(Accepted) :
         i # j => count_matching_cells(Accepted[i], Accepted[j])
                     <= Max(accepted_at[i], accepted_at[j])

\* C1 witness: two arrangements accepted at different tolerances that match
\* in exactly as many positions as the later tolerance allows, and not in 0.
C1_Witness ==
    \E i, j \in 1..Len(Accepted) :
        /\ i < j
        /\ accepted_at[i] < accepted_at[j]
        /\ count_matching_cells(Accepted[i], Accepted[j]) = accepted_at[j]

\* C2: termination. Whatever the sheet count and the order of the draws,
\* the loop of the column eventually holds sheet_count arrangements.
C2_Terminates == <>(pc = "sampling" /\ Len(Accepted) = sheet_count)

\* C2 witness: a column completed with more sheets than the universe has
\* arrangements, after the tolerance went all the way up to k.
C2_Witness ==
    /\ ColumnComplete
    /\ sheet_count > UniverseSize
    /\ UniverseSize >= 6
    /\ matching_cells_tolerance = k

\* A cell other than the free one.
NumberCells == {cell \in Cells : ~(cell[1] = FreeX /\ cell[2] = FreeY)}

\* C3: completion. Once the grids are made every column holds exactly
\* sheet_count arrangements, there are exactly sheet_count grids, and grid
\* number s shows arrangement number s of every column; the list of a column
\* only ever grows at its end (acceptance order).
C3_Completion ==
    /\ [](pc = "done" =>
            /\ \A c \in Columns : Len(columns[c]) = sheet_count
            /\ Len(grids) = sheet_count
            /\ \A s \in 1..sheet_count : \A cell \in NumberCells :
                 grids[s][cell] = columns[cell[1]][s][cell[2] + 1])
    /\ [][\A c \in Columns :
            \/ columns'[c] = columns[c]
            \/ /\ Len(columns'[c]) = Len(columns[c]) + 1
               /\ SubSeq(columns'[c], 1, Len(columns[c])) = columns[c]]_vars

\* C3 witness: grids made for several sheets whose arrangements differ.
C3_Witness ==
    /\ pc = "done"
    /\ sheet_count >= 2
    /\ Len(grids) = sheet_count
    /\ \A c \in Columns : columns[c][1] # columns[c][2]

\* Arrangement number i of the universe has been accepted exactly once.
AcceptedOnce(i) ==
    Cardinality({j \in 1..Len(Accepted) : Accepted[j] = column_bag.elems[i]}) = 1

\* C4 as stated: with sheet_count <= |Universe| the tolerance of the column
\* is 0 throughout, and with sheet_count = |Universe| the completed column
\* holds every arrangement exactly once.
C4_ToleranceStaysZero ==
    (pc = "sampling" /\ sheet_count <= UniverseSize) =>
        /\ matching_cells_tolerance = 0
        /\ (ColumnComplete /\ sheet_count = UniverseSize) =>
               \A i \in 1..UniverseSize : AcceptedOnce(i)

\* C4 amended: with sheet_count <= |Universe| the tolerance of the column
\* stays below k (it need not stay 0), and with sheet_count = |Universe| the
\* completed column holds every arrangement exactly once.
C4_ToleranceBelowK ==
    (pc = "sampling" /\ sheet_count <= UniverseSize) =>
        /\ matching_cells_tolerance < k
        /\ (ColumnComplete /\ sheet_count = UniverseSize) =>
               \A i \in 1..UniverseSize : AcceptedOnce(i)

\* C4 witness: a column of |Universe| sheets completed after the tolerance
\* had to be raised.
C4_Witness ==
    /\ ColumnComplete
    /\ sheet_count = UniverseSize
    /\ UniverseSize >= 6
    /\ matching_cells_tolerance > 0
    /\ \A i \in 1..UniverseSize : AcceptedOnce(i)

\* C5: with sheet_count <= |Universe| the arrangements accepted for the
\* column are pairwise distinct.
C5_NoDuplicate ==
    (pc = "sampling" /\ sheet_count <= UniverseSize) =>
        \A i, j \in 1..Len(Accepted) : i # j => Accepted[i] # Accepted[j]

\* C5 witness: a bag in its second pass (so that accepted arrangements are
\* drawn again) while the column, of at most |Universe| sheets, is not full.
C5_Witness ==
    /\ pc = "sampling"
    /\ sheet_count <= UniverseSize
    /\ Len(Accepted) >= 2
    /\ Len(Accepted) < sheet_count
    /\ failed_pick_count + Len(Accepted)
           > UniverseSize - Cardinality(column_bag.remaining)
    /\ \E i \in BagCandidates(column_bag) :
           \E j \in 1..Len(Accepted) : Accepted[j] = column_bag.elems[i]

\* C6: with sheet_count > |Universe| the column is not complete before the
\* tolerance was raised: while the tolerance is 0 the column holds at most
\* |Universe| arrangements, so a complete one has a tolerance above 0.
C6_ToleranceRaised ==
    (pc = "sampling" /\ sheet_count > UniverseSize) =>
        /\ matching_cells_tolerance = 0 => Len(Accepted) <= UniverseSize
        /\ ColumnComplete => matching_cells_tolerance > 0

\* C6 witness: a complete column of more sheets than a universe of several
\* arrangements holds.
C6_Witness ==
    /\ ColumnComplete
    /\ UniverseSize >= 2
    /\ sheet_count = UniverseSize + 1
    /\ matching_cells_tolerance > 0

\* C7: the tolerance never exceeds k, and at tolerance k no arrangement of
\* the universe fails the test of the loop.
C7_ToleranceAtMostK ==
    pc = "sampling" =>
        /\ matching_cells_tolerance <= k
        /\ matching_cells_tolerance = k =>
               \A i \in 1..UniverseSize :
                   ~PickFails(column_bag.elems[i], Accepted,
                              matching_cells_tolerance)

\* C7 witness: the tolerance is k and an arrangement accepted before has been
\* accepted again.
C7_Witness ==
    /\ pc = "sampling"
    /\ k >= 2
    /\ matching_cells_tolerance = k
    /\ \E i, j \in 1..Len(Accepted) : i < j /\ Accepted[i] = Accepted[j]

\* C8: the tolerance of a column starts at 0 and every step leaves it alone
\* or adds exactly 1.
C8_ToleranceMonotone ==
    /\ matching_cells_tolerance = 0
    /\ [][\/ matching_cells_tolerance' = matching_cells_tolerance
          \/ matching_cells_tolerance' = matching_cells_tolerance + 1]_vars

\* C8 witness: a tolerance raised twice, with arrangements accepted at each
\* of the three levels.
C8_Witness ==
    /\ pc = "sampling"
    /\ matching_cells_tolerance = 2
    /\ {accepted_at[i] : i \in 1..Len(accepted_at)} = {0, 1, 2}

\* The values of a list.
Values(list) == {list[i] : i \in 1..Len(list)}

\* C9: for a pool of n distinct values and 0 < k <= n the enumerator returns
\* n!/(n-k)! arrangements, each k values of the pool without repetition, no
\* two of them equal.
C9_Enumerator ==
    pc = "enumerated" =>
        /\ Len(arrangements) = NumArrangements(Len(elements), k)
        /\ \A i \in 1..Len(arrangements) :
             /\ Len(arrangements[i]) = k
             /\ Cardinality(Values(arrangements[i])) = k
             /\ Values(arrangements[i]) \subseteq Values(elements)
        /\ \A i, j \in 1..Len(arrangements) :
             i # j => arrangements[i] # arrangements[j]

\* C9 witness: the arrangements of length 3 of a pool of 4 values.
C9_Witness ==
    /\ pc = "enumerated"
    /\ k = 3
    /\ Len(elements) = 4
    /\ Len(arrangements) = 24

\* The numbers of column c as a set.
PoolValues(c) == Values(Pool(c, pool_size))

\* C10: in every grid the free cell holds no number, and every other cell
\* (x, y) of grid number s holds columns[x][s][y], a number of the pool of
\* column x.
C10_GridCells ==
    pc = "done" =>
        \A s \in 1..Len(grids) : \A cell \in Cells :
            IF cell[1] = FreeX /\ cell[2] = FreeY
            THEN grids[s][cell] = EmptyCell
            ELSE /\ grids[s][cell] = columns[cell[1]][s][cell[2] + 1]
                 /\ grids[s][cell] \in PoolValues(cell[1])

\* C10 witness: grids of three rows, which have the free cell, for several
\* sheets.
C10_Witness ==
    /\ pc = "done"
    /\ k >= 3
    /\ <<FreeX, FreeY>> \in Cells
    /\ Len(grids) >= 2
    /\ grids[1] # grids[2]

\* C11: determinism. Runs with the same inputs (sheet count, arrangement
\* length, pools) accept the same arrangements for a column: the completed
\* column is the one the run drawing in list order accepts.  The seed is read
\* from the clock inside the function, so it is not among the inputs.
C11_SameInputsSameColumn ==
    ColumnComplete =>
        Accepted = SampleInOrder(ColumnBag(col_index, k, pool_size), <<>>, 0, 0,
                                 sheet_count)

\* C12: independence. The loop of a column starts from the state a run of
\* that column alone starts from, whatever the other columns did: its own
\* fresh bag, tolerance and failed pick count, and a generator that has
\* served no draw.
C12_ColumnStartsAsAlone ==
    [][col_index' # col_index =>
          /\ column_bag' = ColumnBag(col_index', k, pool_size)
          /\ matching_cells_tolerance' = 0
          /\ failed_pick_count' = 0
          /\ random' = 0]_vars

C14_SingletonScenario ==
    (pc = "sampling" /\ k = 1 /\ sheet_count > pool_size) =>
        /\ UniverseSize = pool_size
        /\ matching_cells_tolerance <= 1
        /\ \A i \in 1..Len(Accepted) :
             accepted_at[i] = (IF i <= pool_size THEN 0 ELSE 1)
        /\ \A i, j \in 1..Len(Accepted) :
             (i < j /\ j <= pool_size) => Accepted[i] # Accepted[j]
        /\ matching_cells_tolerance = 1 =>
             /\ Len(Accepted) >= pool_size
             /\ failed_pick_count = 0
             /\ \A i \in 1..UniverseSize :
                  ~PickFails(column_bag.elems[i], Accepted, 1)
        /\ ColumnComplete => matching_cells_tolerance = 1

\* C14 witness: pool of 3 values, k = 1 and at least 5 sheets, complete.
C14_Witness ==
    /\ ColumnComplete
    /\ k = 1
    /\ pool_size = 3
    /\ sheet_count >= 5
    /\ matching_cells_tolerance = 1

\* The arrangements accepted at the current tolerance.
AcceptedInRound ==
    Cardinality({i \in 1..Len(accepted_at) :
                    accepted_at[i] = matching_cells_tolerance})

\* C15 as stated: every step that accepts a pick leaves the failed pick count
\* at 0.
C15_ResetOnAcceptance ==
    [][Len(columns'[col_index]) > Len(columns[col_index]) =>
            failed_pick_count' = 0]_vars

\* C15 amended: a step that accepts a pick leaves the failed pick count as it
\* was; the count is the number of picks that failed since the tolerance last
\* changed (or the column started), consecutive or not.
C15_CountsFailedPicksOfRound ==
    /\ [](pc = "sampling" =>
             failed_pick_count = round_draws - AcceptedInRound)
    /\ [][Len(columns'[col_index]) > Len(columns[col_index]) =>
             failed_pick_count' = failed_pick_count]_vars

\* C15 witness: a pick was accepted after picks had failed at the same
\* tolerance, and the failed pick count still counts them.
C15_Witness ==
    /\ pc = "sampling"
    /\ failed_pick_count >= 2
    /\ Len(Accepted) >= 2
    /\ accepted_at[Len(Accepted)] = matching_cells_tolerance
    /\ round_draws = failed_pick_count + AcceptedInRound
    /\ matching_cells_tolerance >= 1

\* The candidate at index i of the bag may join the accepted list: the list
\* is empty or no accepted arrangement matches it in more than `tolerance`
\* positions.
Acceptable(i) ==
    \/ Accepted = <<>>
    \/ \A j \in 1..Len(Accepted) :
           count_matching_cells(column_bag.elems[i], Accepted[j])
               <= matching_cells_tolerance

\* C16: every iteration of the loop draws a candidate of the bag and appends
\* it to the accepted list if it is acceptable, and leaves the list unchanged
\* (the candidate leaving the pass, or the tolerance going up) if it is not.
C16_AcceptIffWithinTolerance ==
    [][(pc = "sampling" /\ random' # random) =>
          \E i \in BagCandidates(column_bag) :
              IF Acceptable(i)
              THEN /\ columns'[col_index] =
                          Append(Accepted, column_bag.elems[i])
                   /\ column_bag'.remaining = BagCandidates(column_bag) \ {i}
              ELSE /\ columns'[col_index] = Accepted
                   /\ \/ column_bag'.remaining = BagCandidates(column_bag) \ {i}
                      \/ matching_cells_tolerance' # matching_cells_tolerance
      ]_vars

\* C16 witness: at a tolerance above 0, with several arrangements accepted,
\* the bag holds both a candidate that is acceptable and one that is not.
C16_Witness ==
    /\ InLoop
    /\ matching_cells_tolerance >= 1
    /\ Len(Accepted) >= 2
    /\ \E i, j \in BagCandidates(column_bag) : Acceptable(i) /\ ~Acceptable(j)

\* C17: the tolerance changes exactly in the step in which a pick fails and
\* brings the failed pick count to |Universe|; that step adds 1 to the
\* tolerance, sets the count to 0, resets the bag and leaves the accepted
\* list alone.  The failed pick count never exceeds |Universe|.
C17_Escalation ==
    /\ [](pc = "sampling" =>
             /\ failed_pick_count <= UniverseSize
             /\ (UniverseSize > 0 => failed_pick_count < UniverseSize))
    /\ [][(pc = "sampling" /\ col_index' = col_index) =>
            /\ (matching_cells_tolerance' # matching_cells_tolerance) <=>
                   /\ random' # random
                   /\ columns'[col_index] = Accepted
                   /\ failed_pick_count + 1 = UniverseSize
            /\ (matching_cells_tolerance' # matching_cells_tolerance) =>
                   /\ matching_cells_tolerance' = matching_cells_tolerance + 1
                   /\ failed_pick_count' = 0
                   /\ column_bag'.remaining = 1..UniverseSize
                   /\ column_bag'.elems = column_bag.elems
                   /\ columns' = columns
            /\ (random' # random /\ columns'[col_index] = Accepted
                  /\ failed_pick_count + 1 < UniverseSize) =>
                   failed_pick_count' = failed_pick_count + 1
      ]_vars

\* C17 witness: the tolerance has just been raised for the second time in a
\* universe of several arrangements: count 0, bag fresh.
C17_Witness ==
    /\ pc = "sampling"
    /\ UniverseSize >= 6
    /\ matching_cells_tolerance = 2
    /\ round_draws = 0
    /\ failed_pick_count = 0
    /\ column_bag.remaining = 1..UniverseSize

\* C18 as stated: while the tolerance is below k, at most |Universe| picks
\* were drawn since the tolerance last changed (or the column started).
C18_RoundWithinOnePass ==
    (pc = "sampling" /\ matching_cells_tolerance < k) =>
        round_draws <= UniverseSize

\* C18 amended: while the tolerance is below k, fewer than |Universe| of the
\* picks drawn since the tolerance last changed failed; the others were
\* accepted and are pairwise different, so the next pick is at most the
\* (2 * |Universe|)-th of the round.
C18_RoundWithinTwoPasses ==
    (pc = "sampling" /\ matching_cells_tolerance < k) =>
        /\ round_draws - AcceptedInRound < UniverseSize
        /\ AcceptedInRound <= UniverseSize
        /\ round_draws + 1 <= 2 * UniverseSize
        /\ \A i, j \in 1..Len(Accepted) :
               (i # j /\ accepted_at[i] = matching_cells_tolerance
                      /\ accepted_at[j] = matching_cells_tolerance)
                   => Accepted[i] # Accepted[j]

\* C18 witness: a round below tolerance k that is in the second pass of the
\* bag.
C18_Witness ==
    /\ InLoop
    /\ matching_cells_tolerance < k
    /\ UniverseSize >= 2
    /\ round_draws > UniverseSize

\* C19: in a step that raises the tolerance, every arrangement of the
\* universe matches some accepted arrangement in more positions than the
\* tolerance in force.
C19_EscalatesWhenNoneAcceptable ==
    [][matching_cells_tolerance' > matching_cells_tolerance =>
          \A i \in 1..UniverseSize :
              /\ Accepted # <<>>
              /\ \E j \in 1..Len(Accepted) :
                     count_matching_cells(column_bag.elems[i], Accepted[j])
                         > matching_cells_tolerance
      ]_vars

\* C19 witness: one failed pick short of raising a tolerance above 0, no
\* arrangement of a universe of several being acceptable.
C19_Witness ==
    /\ InLoop
    /\ UniverseSize >= 6
    /\ matching_cells_tolerance >= 1
    /\ failed_pick_count + 1 = UniverseSize
    /\ \A i \in 1..UniverseSize : ~Acceptable(i)

\* C20: an arrangement equal to one accepted before it was accepted at
\* tolerance k; a complete column of more than |Universe| sheets has
\* tolerance k, a column of 1..|Universe| sheets a tolerance of at most k - 1.
C20_DuplicatesOnlyAtK ==
    pc = "sampling" =>
        /\ \A i, j \in 1..Len(Accepted) :
               (i < j /\ Accepted[i] = Accepted[j]) => accepted_at[j] = k
        /\ (ColumnComplete /\ sheet_count > UniverseSize) =>
               matching_cells_tolerance = k
        /\ (0 < sheet_count /\ sheet_count <= UniverseSize) =>
               matching_cells_tolerance <= k - 1

\* C20 witness: a complete column of more sheets than the universe holds, of
\* arrangements of several cells, with an arrangement accepted twice.
C20_Witness ==
    /\ ColumnComplete
    /\ k >= 2
    /\ UniverseSize >= 2
    /\ sheet_count > UniverseSize
    /\ \E i, j \in 1..Len(Accepted) : i < j /\ Accepted[i] = Accepted[j]
====
